---- MODULE Spec2Model ----
(***************************************************************************)
(* DFAStrategy (src/DFAStrategy.py): a backtrader strategy that buys on a  *)
(* fixed cadence an amount scaled by the deviation of the close from its   *)
(* moving average, and sells part of the position when the return on the   *)
(* average cost reaches a target, gated by a cooldown.                     *)
(*                                                                         *)
(* Python floats are modelled as binary floating-point numbers with a      *)
(* MantBits-bit significand, rounded to nearest, ties to even, after every *)
(* operation (IEEE-754 double is the case MantBits = 53).  The exponent is *)
(* unbounded: there is no overflow or underflow.  A float is the record    *)
(* [m, e] of value m * 2^e, with 2^(MantBits-1) <= |m| < 2^MantBits, or    *)
(* m = e = 0 for zero.                                                     *)
(***************************************************************************)
EXTENDS Integers, Sequences, FiniteSets, TLC

\* Width of the significand of a float.
MantBits == 10

\* ------------------------------------------------------------------ floats

Pow2(n) == 2 ^ n

Pow10(n) == 10 ^ n

\* Number of bits of n, for 0 <= n < 2^31.
BitLen(n) ==
    IF n < 2 ^ 16
    THEN IF n < 2 ^ 8
         THEN IF n < 2 ^ 4
              THEN IF n < 2 ^ 2 THEN (IF n < 1 THEN 0 ELSE IF n < 2 THEN 1 ELSE 2)
                   ELSE (IF n < 2 ^ 3 THEN 3 ELSE 4)
              ELSE IF n < 2 ^ 6 THEN (IF n < 2 ^ 5 THEN 5 ELSE 6)
                   ELSE (IF n < 2 ^ 7 THEN 7 ELSE 8)
         ELSE IF n < 2 ^ 12
              THEN IF n < 2 ^ 10 THEN (IF n < 2 ^ 9 THEN 9 ELSE 10)
                   ELSE (IF n < 2 ^ 11 THEN 11 ELSE 12)
              ELSE IF n < 2 ^ 14 THEN (IF n < 2 ^ 13 THEN 13 ELSE 14)
                   ELSE (IF n < 2 ^ 15 THEN 15 ELSE 16)
    ELSE IF n < 2 ^ 24
         THEN IF n < 2 ^ 20
              THEN IF n < 2 ^ 18 THEN (IF n < 2 ^ 17 THEN 17 ELSE 18)
                   ELSE (IF n < 2 ^ 19 THEN 19 ELSE 20)
              ELSE IF n < 2 ^ 22 THEN (IF n < 2 ^ 21 THEN 21 ELSE 22)
                   ELSE (IF n < 2 ^ 23 THEN 23 ELSE 24)
         ELSE IF n < 2 ^ 28
              THEN IF n < 2 ^ 26 THEN (IF n < 2 ^ 25 THEN 25 ELSE 26)
                   ELSE (IF n < 2 ^ 27 THEN 27 ELSE 28)
              ELSE IF n < 2 ^ 30 THEN (IF n < 2 ^ 29 THEN 29 ELSE 30)
                   ELSE 31

Abs(n) == IF n < 0 THEN -n ELSE n

Sgn(n) == IF n < 0 THEN -1 ELSE IF n > 0 THEN 1 ELSE 0

Zero == [m |-> 0, e |-> 0]

\* n >= 0 without its k lowest bits, rounded to nearest, ties to even.
RoundHalfEven(n, k) ==
    IF k <= 0 THEN n
    ELSE LET q == n \div Pow2(k)
             r == n % Pow2(k)
             h == Pow2(k - 1)
         IN  IF r > h \/ (r = h /\ q % 2 = 1) THEN q + 1 ELSE q

\* The float of sign sgn whose magnitude is nearest to a * 2^e, for a > 0 of
\* L bits.
Normalize(sgn, a, L, e) ==
    IF L <= MantBits
    THEN [m |-> sgn * a * Pow2(MantBits - L), e |-> e - (MantBits - L)]
    ELSE IF RoundHalfEven(a, L - MantBits) = Pow2(MantBits)
    THEN [m |-> sgn * Pow2(MantBits - 1), e |-> e + (L - MantBits) + 1]
    ELSE [m |-> sgn * RoundHalfEven(a, L - MantBits), e |-> e + (L - MantBits)]

\* The float nearest to n * 2^e.
Rnd(n, e) ==
    IF n = 0 THEN Zero
    ELSE Normalize(Sgn(n), Abs(n), BitLen(Abs(n)), e)

\* x when it is positive, and 0 otherwise.
Max0(x) == IF x > 0 THEN x ELSE 0

\* The float of sign sgn nearest to a / d (a, d > 0): the quotient of a * 2^k
\* by d and a sticky bit.
StickyQuotient(sgn, a, d, k) ==
    Rnd(sgn * (2 * ((a * Pow2(k)) \div d) + (IF (a * Pow2(k)) % d = 0 THEN 0 ELSE 1)),
        0 - k - 1)

\* The float nearest to the rational n / d (d > 0): a literal, or a decimal
\* string converted back to a float.
RoundRat(n, d) ==
    IF n = 0 THEN Zero
    ELSE StickyQuotient(Sgn(n), Abs(n), d,
                        Max0(BitLen(d) + MantBits + 2 - BitLen(Abs(n))))

FromInt(n) == Rnd(n, 0)

\* The float a decimal literal n / 10^digits denotes.
FromDec(n, digits) == RoundRat(n, Pow10(digits))

Fneg(a) == [m |-> 0 - a.m, e |-> a.e]

Fadd(a, b) ==
    IF a.m = 0 THEN b
    ELSE IF b.m = 0 THEN a
    ELSE IF a.e - b.e > MantBits + 2 THEN a
    ELSE IF b.e - a.e > MantBits + 2 THEN b
    ELSE LET lo == IF a.e < b.e THEN a.e ELSE b.e
         IN  Rnd(a.m * Pow2(a.e - lo) + b.m * Pow2(b.e - lo), lo)

Fsub(a, b) == Fadd(a, Fneg(b))

Fmul(a, b) == Rnd(a.m * b.m, a.e + b.e)

\* a / b for b # 0: the quotient to MantBits + 3 bits and a sticky bit.
Fdiv(a, b) ==
    IF a.m = 0 THEN Zero
    ELSE LET n  == Abs(a.m) * Pow2(MantBits + 2)
             d  == Abs(b.m)
             q  == n \div d
             st == IF n % d = 0 THEN 0 ELSE 1
         IN  Rnd(Sgn(a.m) * Sgn(b.m) * (2 * q + st), a.e - b.e - MantBits - 3)

Flt(a, b) ==
    IF a.m = 0 THEN b.m > 0
    ELSE IF b.m = 0 THEN a.m < 0
    ELSE IF a.m < 0 /\ b.m > 0 THEN TRUE
    ELSE IF a.m > 0 /\ b.m < 0 THEN FALSE
    ELSE IF a.m > 0 THEN a.e < b.e \/ (a.e = b.e /\ a.m < b.m)
    ELSE a.e > b.e \/ (a.e = b.e /\ a.m < b.m)
Fle(a, b) == a = b \/ Flt(a, b)
Fgt(a, b) == Flt(b, a)
Fge(a, b) == Fle(b, a)

\* Python's round(x, ndigits) of a float: the exact value of x rounded half
\* to even at ndigits decimals, and the float nearest to that decimal.
PyRound(x, ndigits) ==
    LET a == Abs(x.m) * Pow10(ndigits)
        n == IF x.e >= 0 THEN a * Pow2(x.e)
             ELSE IF 0 - x.e > BitLen(a) + 1 THEN 0
             ELSE RoundHalfEven(a, 0 - x.e)
    IN  RoundRat(Sgn(x.m) * n, Pow10(ndigits))

\* ------------------------------------------------------------ the strategy

\* params (a backtrader params tuple; sell_ratio is the one the model varies).
base_cash == 70
investment_interval == 14
target_return == 75
profit_taking_cooldown == 30

\* Python's None, for a date that is not set (dates are day numbers >= 0).
None == -1

\* A moving average that is not computed yet (pd.isna).
NaN == [m |-> 0, e |-> 1]
isna(x) == x = NaN

\* The float constants of the code.
Hundred == FromInt(100)
BaseCash == FromInt(base_cash)
TargetReturn == FromInt(target_return)
Tiers == <<FromInt(-20), FromInt(-10), FromInt(0), FromInt(5), FromInt(15), FromInt(25)>>
Multipliers == <<FromDec(22, 1), FromDec(18, 1), FromDec(14, 1), FromDec(10, 1),
                 FromDec(5, 1), FromDec(2, 1), FromDec(0, 1)>>

\* ------------------------------------------------------------ model bounds

\* Number of bars fed to the strategy.
MaxBars == 3

\* Days between two consecutive bars.
DayGaps == {1, 13, 29}

\* Closing prices, moving-average values and broker cash readings.
Prices == {FromInt(30000), FromInt(70000)}
MaVals == {NaN, Zero, FromInt(40000), FromInt(60000)}
CashVals == {Zero, FromInt(3), FromInt(6300)}
SellRatios == {FromDec(5, 1), FromInt(1)}

VARIABLES
    investment_count,         \* self.investment_count
    last_investment_date,     \* self.last_investment_date
    last_profit_taking_date,  \* self.last_profit_taking_date
    investment_history,       \* self.investment_history
    total_invested,           \* self.total_invested
    total_shares,             \* self.total_shares
    profit_history,           \* self.profit_history
    total_sell_amount,        \* self.total_sell_amount
    sell_ratio,               \* self.params.sell_ratio
    orders,                   \* the buy and sell orders handed to the broker
    bar,                      \* the bar last processed: its number, its date and
                              \* what next() read of it: the close, and the
                              \* moving average and the broker's cash when
                              \* execute_investment read them (NaN when not)
    step,                     \* what next() did on that bar
    deviation,                \* argument of a get_investment_multiplier call
    multiplier                \* its result (NaN before any call)

vars == <<investment_count, last_investment_date, last_profit_taking_date,
          investment_history, total_invested, total_shares, profit_history,
          total_sell_amount, sell_ratio, orders, bar, step, deviation, multiplier>>

\* The strategy object as a record.
Self ==
    [investment_count |-> investment_count,
     last_investment_date |-> last_investment_date,
     last_profit_taking_date |-> last_profit_taking_date,
     investment_history |-> investment_history,
     total_invested |-> total_invested,
     total_shares |-> total_shares,
     profit_history |-> profit_history,
     total_sell_amount |-> total_sell_amount,
     orders |-> orders]

\* A variant with the tier boundaries exclusive.
get_investment_multiplier_strict(d) ==
    IF Flt(d, Tiers[1]) THEN Multipliers[1]
    ELSE IF Flt(d, Tiers[2]) THEN Multipliers[2]
    ELSE IF Flt(d, Tiers[3]) THEN Multipliers[3]
    ELSE IF Flt(d, Tiers[4]) THEN Multipliers[4]
    ELSE IF Flt(d, Tiers[5]) THEN Multipliers[5]
    ELSE IF Flt(d, Tiers[6]) THEN Multipliers[6]
    ELSE Multipliers[7]

get_investment_multiplier(d) ==
    IF Fle(d, Tiers[1]) THEN Multipliers[1]
    ELSE IF Fle(d, Tiers[2]) THEN Multipliers[2]
    ELSE IF Fle(d, Tiers[3]) THEN Multipliers[3]
    ELSE IF Fle(d, Tiers[4]) THEN Multipliers[4]
    ELSE IF Fle(d, Tiers[5]) THEN Multipliers[5]
    ELSE IF Fle(d, Tiers[6]) THEN Multipliers[6]
    ELSE Multipliers[7]

\* A variant that allocates the cost by sell_ratio instead of by the shares sold.
cost_of_sold_by_ratio(self, ratio, sell_shares) == Fmul(ratio, self.total_invested)

\* A variant that costs the shares sold at the price of the first purchase.
cost_of_sold_fifo(self, ratio, sell_shares) ==
    Fmul(sell_shares, self.investment_history[1].price)

\* cost_of_sold (line 141): the average-cost share of the cost basis.
cost_of_sold(self, ratio, sell_shares) ==
    Fmul(Fdiv(sell_shares, self.total_shares), self.total_invested)

\* A variant that takes the proceeds, not the cost of the shares sold, off
\* total_invested.
sell_subtracts_proceeds(self, ratio, current_date, current_price, current_return, sell_shares) ==
    LET sell_amount == Fmul(sell_shares, current_price)
        cost == cost_of_sold(self, ratio, sell_shares)
        profit == Fsub(sell_amount, cost)
        profit_info == [date |-> current_date,
                        price |-> current_price,
                        return_percent |-> current_return,
                        shares_sold |-> sell_shares,
                        amount_received |-> sell_amount,
                        cost_of_sold |-> cost,
                        profit |-> profit]
    IN  [self EXCEPT
            !.orders = Append(@, [op |-> "sell", size |-> sell_shares]),
            !.total_shares = Fsub(@, sell_shares),
            !.total_invested = Fsub(@, sell_amount),
            !.total_sell_amount = Fadd(@, sell_amount),
            !.last_profit_taking_date = current_date,
            !.profit_history = Append(@, profit_info)]

\* A variant that restarts the investment cadence at the exit.
sell_restarts_cadence(self, ratio, current_date, current_price, current_return, sell_shares) ==
    LET sell_amount == Fmul(sell_shares, current_price)
        cost == cost_of_sold(self, ratio, sell_shares)
        profit == Fsub(sell_amount, cost)
        profit_info == [date |-> current_date,
                        price |-> current_price,
                        return_percent |-> current_return,
                        shares_sold |-> sell_shares,
                        amount_received |-> sell_amount,
                        cost_of_sold |-> cost,
                        profit |-> profit]
    IN  [self EXCEPT
            !.orders = Append(@, [op |-> "sell", size |-> sell_shares]),
            !.total_shares = Fsub(@, sell_shares),
            !.total_invested = Fsub(@, cost),
            !.total_sell_amount = Fadd(@, sell_amount),
            !.last_profit_taking_date = current_date,
            !.last_investment_date = current_date,
            !.profit_history = Append(@, profit_info)]

\* The sell branch of check_profit_taking (lines 137-162).
sell(self, ratio, current_date, current_price, current_return, sell_shares) ==
    LET sell_amount == Fmul(sell_shares, current_price)
        cost == cost_of_sold(self, ratio, sell_shares)
        profit == Fsub(sell_amount, cost)
        profit_info == [date |-> current_date,
                        price |-> current_price,
                        return_percent |-> current_return,
                        shares_sold |-> sell_shares,
                        amount_received |-> sell_amount,
                        cost_of_sold |-> cost,
                        profit |-> profit]
    IN  [self EXCEPT
            !.orders = Append(@, [op |-> "sell", size |-> sell_shares]),
            !.total_shares = Fsub(@, sell_shares),
            !.total_invested = Fsub(@, cost),
            !.total_sell_amount = Fadd(@, sell_amount),
            !.last_profit_taking_date = current_date,
            !.profit_history = Append(@, profit_info)]

\* A variant that counts the cooldown from the last investment.
in_cooldown_since_investment(self, current_date) ==
    /\ self.last_profit_taking_date # None
    /\ current_date - self.last_investment_date < profit_taking_cooldown

\* The cooldown test of check_profit_taking (lines 126-129).
in_cooldown(self, current_date) ==
    /\ self.last_profit_taking_date # None
    /\ current_date - self.last_profit_taking_date < profit_taking_cooldown

\* A variant that takes any profit for the target.
target_reached_any_profit(current_return) == Fgt(current_return, Zero)

\* The test of the return against the target (line 132).
target_reached(current_return) == Fge(current_return, TargetReturn)

\* check_profit_taking on a bar of date current_date and close current_price.
\* The result is the strategy object, the place where the method returned and
\* the current_return it computed (NaN when it computed none).
check_profit_taking(self, ratio, current_date, current_price) ==
    IF ~Fgt(self.total_shares, Zero)
    THEN [self |-> self, exit |-> "no_shares", current_return |-> NaN]
    ELSE IF ~Fgt(self.total_invested, Zero)
    THEN [self |-> self, exit |-> "no_cost", current_return |-> NaN]
    ELSE LET current_value == Fmul(self.total_shares, current_price)
             current_return ==
                 Fmul(Fdiv(Fsub(current_value, self.total_invested), self.total_invested),
                      Hundred)
         IN
    IF in_cooldown(self, current_date)
    THEN [self |-> self, exit |-> "cooldown", current_return |-> current_return]
    ELSE IF ~target_reached(current_return)
    THEN [self |-> self, exit |-> "below_target", current_return |-> current_return]
    ELSE LET sell_shares == PyRound(Fmul(self.total_shares, ratio), 4) IN
    IF ~Fgt(sell_shares, Zero)
    THEN [self |-> self, exit |-> "zero_sell", current_return |-> current_return]
    ELSE [self |-> sell(self, ratio, current_date, current_price, current_return,
                        sell_shares),
          exit |-> "sold", current_return |-> current_return]

\* A variant that appends the record and leaves investment_count as it is.
buy_without_count(self, current_date, current_price, ma120_value, dev, mult, size) ==
    LET actual_invested == Fmul(size, current_price)
        investment_info == [date |-> current_date,
                            price |-> current_price,
                            ma120 |-> ma120_value,
                            deviation |-> dev,
                            multiplier |-> mult,
                            amount |-> actual_invested,
                            shares |-> size]
    IN  [self EXCEPT
            !.orders = Append(@, [op |-> "buy", size |-> size]),
            !.total_invested = Fadd(@, actual_invested),
            !.total_shares = Fadd(@, size),
            !.last_investment_date = current_date,
            !.investment_history = Append(@, investment_info)]

\* The buy branch of execute_investment (lines 85-107).
buy(self, current_date, current_price, ma120_value, dev, mult, size) ==
    LET actual_invested == Fmul(size, current_price)
        investment_info == [date |-> current_date,
                            price |-> current_price,
                            ma120 |-> ma120_value,
                            deviation |-> dev,
                            multiplier |-> mult,
                            amount |-> actual_invested,
                            shares |-> size]
    IN  [self EXCEPT
            !.orders = Append(@, [op |-> "buy", size |-> size]),
            !.total_invested = Fadd(@, actual_invested),
            !.total_shares = Fadd(@, size),
            !.investment_count = @ + 1,
            !.last_investment_date = current_date,
            !.investment_history = Append(@, investment_info)]

\* A variant that records the date of an attempt it gives up.
skip_attempt_records_date(self, current_date) ==
    [self EXCEPT !.last_investment_date = current_date]

\* The return of execute_investment when the moving average is not ready
\* (lines 64-65): nothing is touched.
skip_attempt(self, current_date) == self

\* A variant that lets a size of 0 through.
size_ok_nonneg(size) == Fge(size, Zero)

\* The test of the size to buy (line 84).
size_ok(size) == Fgt(size, Zero)

\* execute_investment once the size is rounded (lines 84-107).
invest_size(self, current_date, current_price, ma120_value, dev, mult, size) ==
    IF ~size_ok(size)
    THEN [self |-> self, outcome |-> "zero_size"]
    ELSE [self |-> buy(self, current_date, current_price, ma120_value, dev, mult, size),
          outcome |-> "bought"]

\* execute_investment once the amount is clipped (lines 80-107).
invest_amount(self, current_date, current_price, ma120_value, dev, mult, investment_amount) ==
    IF ~Fgt(investment_amount, Zero)
    THEN [self |-> self,
          outcome |-> IF mult = Zero THEN "zero_multiplier" ELSE "no_cash"]
    ELSE invest_size(self, current_date, current_price, ma120_value, dev, mult,
                     PyRound(Fdiv(investment_amount, current_price), 4))

\* The amount asked for, cut to the broker's cash (lines 77-78).
clip_to_cash(requested, cash) == IF Fgt(requested, cash) THEN cash ELSE requested

\* execute_investment once the multiplier is looked up (lines 74-107).
invest_multiplier(self, current_date, current_price, ma120_value, cash, dev, mult) ==
    invest_amount(self, current_date, current_price, ma120_value, dev, mult,
                  clip_to_cash(Fmul(BaseCash, mult), cash))

\* execute_investment once the deviation is computed (lines 71-107).
invest_deviation(self, current_date, current_price, ma120_value, cash, dev) ==
    invest_multiplier(self, current_date, current_price, ma120_value, cash, dev,
                      get_investment_multiplier(dev))

\* execute_investment on a bar; ma120_value and cash are what self.ma120[0] and
\* self.broker.getcash() return.  The result is the strategy object and the
\* place where the method returned.
execute_investment(self, current_date, current_price, ma120_value, cash) ==
    IF ma120_value = Zero \/ isna(ma120_value)
    THEN [self |-> skip_attempt(self, current_date), outcome |-> "not_ready"]
    ELSE invest_deviation(self, current_date, current_price, ma120_value, cash,
             Fmul(Fdiv(Fsub(current_price, ma120_value), ma120_value), Hundred))

NoPosition == [total_shares |-> Zero, total_invested |-> Zero]

\* No bar processed yet.
NoBar == [n |-> 0, date |-> 0, close |-> NaN, ma120 |-> NaN, cash |-> NaN]

\* __init__, and the params and the feed before the first bar.
Init ==
    /\ investment_count = 0
    /\ last_investment_date = None
    /\ last_profit_taking_date = None
    /\ investment_history = <<>>
    /\ total_invested = Zero
    /\ total_shares = Zero
    /\ profit_history = <<>>
    /\ total_sell_amount = Zero
    /\ sell_ratio \in SellRatios
    /\ orders = <<>>
    /\ bar = NoBar
    /\ step = [pre |-> NoPosition, mid |-> NoPosition, exit |-> "none",
               current_return |-> NaN, outcome |-> "none"]
    /\ deviation = Zero
    /\ multiplier = NaN

\* The end of next(): the strategy object s2 is what the bar leaves.
Commit(current_date, current_price, ma120_value, cash, c, outcome, s2) ==
    /\ investment_count' = s2.investment_count
    /\ last_investment_date' = s2.last_investment_date
    /\ last_profit_taking_date' = s2.last_profit_taking_date
    /\ investment_history' = s2.investment_history
    /\ total_invested' = s2.total_invested
    /\ total_shares' = s2.total_shares
    /\ profit_history' = s2.profit_history
    /\ total_sell_amount' = s2.total_sell_amount
    /\ orders' = s2.orders
    /\ bar' = [n |-> bar.n + 1, date |-> current_date, close |-> current_price,
               ma120 |-> IF outcome = "not_due" THEN NaN ELSE ma120_value,
               cash |-> IF outcome \in {"not_due", "not_ready"} THEN NaN ELSE cash]
    /\ step' = [pre |-> [total_shares |-> total_shares, total_invested |-> total_invested],
                mid |-> [total_shares |-> c.self.total_shares,
                         total_invested |-> c.self.total_invested],
                exit |-> c.exit,
                current_return |-> c.current_return,
                outcome |-> outcome]

\* A variant that counts the days inclusively.
is_investment_due_inclusive(self, current_date) ==
    \/ self.last_investment_date = None
    \/ current_date - self.last_investment_date + 1 >= investment_interval

\* A variant without the branch of the first investment.
is_investment_due_after_first(self, current_date) ==
    /\ self.last_investment_date # None
    /\ current_date - self.last_investment_date >= investment_interval

\* The cadence test of next() (lines 49-55).
is_investment_due(self, current_date) ==
    \/ self.last_investment_date = None
    \/ current_date - self.last_investment_date >= investment_interval

\* A variant of next() that invests first and checks the profit-taking after.
next_buy_first ==
    /\ bar.n < MaxBars
    /\ \E gap \in DayGaps, current_price \in Prices :
         LET current_date == bar.date + gap IN
         IF is_investment_due(Self, current_date)
         THEN \E ma120_value \in MaVals, cash \in CashVals :
                \E r \in {execute_investment(Self, current_date, current_price,
                                             ma120_value, cash)} :
                   \E c \in {check_profit_taking(r.self, sell_ratio, current_date,
                                                 current_price)} :
                      Commit(current_date, current_price, ma120_value, cash, c,
                             r.outcome, c.self)
         ELSE \E c \in {check_profit_taking(Self, sell_ratio, current_date,
                                            current_price)} :
                 Commit(current_date, current_price, NaN, NaN, c, "not_due", c.self)
    /\ UNCHANGED <<sell_ratio, deviation, multiplier>>

\* next() on a bar dated current_date that closes at current_price:
\* check_profit_taking, then execute_investment when an investment is due.
\* The moving average and the broker's cash, drawn from mas and cashes, are
\* read by execute_investment only.
next_on(current_date, current_price, mas, cashes) ==
    \E c \in {check_profit_taking(Self, sell_ratio, current_date, current_price)} :
       IF is_investment_due(c.self, current_date)
       THEN \E ma120_value \in mas, cash \in cashes :
              \E r \in {execute_investment(c.self, current_date, current_price,
                                           ma120_value, cash)} :
                 Commit(current_date, current_price, ma120_value, cash, c,
                        r.outcome, r.self)
       ELSE Commit(current_date, current_price, NaN, NaN, c, "not_due", c.self)

\* next() on the next bar of the feed.
next ==
    /\ bar.n < MaxBars
    /\ \E gap \in DayGaps, current_price \in Prices :
         next_on(bar.date + gap, current_price, MaVals, CashVals)
    /\ UNCHANGED <<sell_ratio, deviation, multiplier>>

Next == next

Spec == Init /\ [][Next]_vars

\* ------------------------------- a feed that collapses after a liquidation

\* The strategy configured for full liquidation, on a feed whose price falls
\* to a fraction of the earlier closes while the broker is almost out of
\* cash: the cash left is of the size of the rounding residue that a full
\* liquidation leaves in total_invested.
ResidueBars == 4
ResidueGaps == {1, 14}
ResiduePrices == {FromInt(30000), FromInt(70000), FromInt(2500)}
ResidueMaVals == {FromInt(40000), FromInt(60000)}
ResidueCashVals == {FromDec(25, 2), FromInt(6300)}

InitResidue ==
    /\ Init
    /\ sell_ratio = FromInt(1)

\* next() on the next bar of that feed.
next_residue ==
    /\ bar.n < ResidueBars
    /\ \E gap \in ResidueGaps, current_price \in ResiduePrices :
         next_on(bar.date + gap, current_price, ResidueMaVals, ResidueCashVals)
    /\ UNCHANGED <<sell_ratio, deviation, multiplier>>

NextResidue == next_residue

SpecResidue == InitResidue /\ [][NextResidue]_vars

\* --------------------------------------------- a broker short of cash

\* A fresh strategy on a feed where the broker's free cash is below the
\* amount requested, at a low price and at two high ones.
ClipBars == 3
ClipPrices == {FromInt(29), FromInt(30000), FromInt(70000)}
ClipMaVals == {FromInt(40000)}
ClipCashVals == {FromInt(98), FromInt(150)}

\* next() on the next bar of that feed.
next_clip ==
    /\ bar.n < ClipBars
    /\ \E gap \in DayGaps, current_price \in ClipPrices :
         next_on(bar.date + gap, current_price, ClipMaVals, ClipCashVals)
    /\ UNCHANGED <<sell_ratio, deviation, multiplier>>

NextClip == next_clip

SpecClip == Init /\ [][NextClip]_vars

\* ------------------------------------------------- a feed out of order

\* A feed whose bars may carry the date of the bar before, or an earlier one.
MalformedBars == 2
MalformedGaps == {-1, 0, 14}

\* next() on the next bar of that feed: next() takes the bar as it comes.
\* Dates are day numbers from the first day of the feed's calendar, day 0.
next_malformed ==
    /\ bar.n < MalformedBars
    /\ \E gap \in MalformedGaps, current_price \in Prices :
         /\ bar.date + gap >= 0
         /\ next_on(bar.date + gap, current_price, MaVals, CashVals)
    /\ UNCHANGED <<sell_ratio, deviation, multiplier>>

NextMalformed == next_malformed

SpecMalformed == Init /\ [][NextMalformed]_vars

\* --------------------------------------- get_investment_multiplier alone

\* Largest |deviation| the multiplier is called on.
MaxDeviation == 30

\* The deviations: every float of [-MaxDeviation, MaxDeviation] on the grid of
\* the floats of [16, 32), so that the neighbours of 25 and of -20 are in it.
DevGrid == 5 - MantBits
Deviations == {Rnd(n, DevGrid) : n \in (0 - MaxDeviation * Pow2(0 - DevGrid)) ..
                                       (MaxDeviation * Pow2(0 - DevGrid))}

InitMult ==
    /\ investment_count = 0
    /\ last_investment_date = None
    /\ last_profit_taking_date = None
    /\ investment_history = <<>>
    /\ total_invested = Zero
    /\ total_shares = Zero
    /\ profit_history = <<>>
    /\ total_sell_amount = Zero
    /\ sell_ratio = FromDec(5, 1)
    /\ orders = <<>>
    /\ bar = NoBar
    /\ step = [pre |-> NoPosition, mid |-> NoPosition, exit |-> "none",
               current_return |-> NaN, outcome |-> "none"]
    /\ deviation \in Deviations
    /\ multiplier = NaN

\* The call of get_investment_multiplier on the deviation.
call_multiplier ==
    /\ multiplier = NaN
    /\ multiplier' = get_investment_multiplier(deviation)
    /\ UNCHANGED <<investment_count, last_investment_date, last_profit_taking_date,
                   investment_history, total_invested, total_shares, profit_history,
                   total_sell_amount, sell_ratio, orders, bar, step, deviation>>

NextMult == call_multiplier

SpecMult == InitMult /\ [][NextMult]_vars

\* ------------------------------------------------------------------ claims

Last(s) == s[Len(s)]

\* C1: get_investment_multiplier returns the tier of the table: 2.2 for
\* d <= -20, 1.8 for -20 < d <= -10, 1.4 for -10 < d <= 0, 1.0 for 0 < d <= 5,
\* 0.5 for 5 < d <= 15, 0.2 for 15 < d <= 25 and 0.0 for d > 25.  The deviation
\* is compared exactly, as the integer number of grid steps it is.
GridSteps(d) ==
    IF d.e >= DevGrid THEN d.m * Pow2(d.e - DevGrid) ELSE d.m \div Pow2(DevGrid - d.e)
TableTier(u, one) ==
    IF u <= -20 * one THEN FromDec(22, 1)
    ELSE IF u <= -10 * one THEN FromDec(18, 1)
    ELSE IF u <= 0 THEN FromDec(14, 1)
    ELSE IF u <= 5 * one THEN FromDec(10, 1)
    ELSE IF u <= 15 * one THEN FromDec(5, 1)
    ELSE IF u <= 25 * one THEN FromDec(2, 1)
    ELSE Zero
C1_MultiplierTable ==
    multiplier # NaN => multiplier = TableTier(GridSteps(deviation), Pow2(0 - DevGrid))
\* The float just above 25 has been mapped to 0.0.
C1_Witness ==
    /\ GridSteps(deviation) = 25 * Pow2(0 - DevGrid) + 1
    /\ multiplier = Zero

\* C2: any two consecutive entries of investment_history are at least
\* investment_interval days apart.
C2_InvestmentsSpaced ==
    \A i \in 1 .. Len(investment_history) - 1 :
        investment_history[i + 1].date - investment_history[i].date >= investment_interval
\* Two investments exactly investment_interval days apart, the second one on a
\* bar that follows a bar on which no investment was due yet.
C2_Witness ==
    /\ Len(investment_history) = 2
    /\ investment_history[2].date - investment_history[1].date = investment_interval
    /\ bar.n = 3
    /\ bar.date = investment_history[2].date

\* The return on the position (S shares of cost C) at close p, as
\* check_profit_taking computes it.
ReturnPct(S, C, p) == Fmul(Fdiv(Fsub(Fmul(S, p), C), C), Hundred)

\* C3: on a bar dated less than profit_taking_cooldown days after the last
\* exit no exit is executed, and consecutive entries of profit_history are at
\* least profit_taking_cooldown days apart.
C3_ExitsSpaced ==
    [][/\ (/\ last_profit_taking_date # None
           /\ bar'.date - last_profit_taking_date < profit_taking_cooldown)
          => /\ profit_history' = profit_history
             /\ last_profit_taking_date' = last_profit_taking_date
       /\ \A i \in 1 .. Len(profit_history') - 1 :
             profit_history'[i + 1].date - profit_history'[i].date
                >= profit_taking_cooldown]_vars
\* A bar in the cooldown, one day short of its end, on which the return of the
\* position is at or above the target and nothing is sold.
C3_Witness ==
    /\ last_profit_taking_date # None
    /\ bar.date - last_profit_taking_date = profit_taking_cooldown - 1
    /\ step.exit = "cooldown"
    /\ Fge(step.current_return, TargetReturn)
    /\ Fgt(step.pre.total_shares, Zero)

\* C4: when an exit and an investment happen on the same bar, the exit is
\* computed from the position held when the bar arrived (the sell order
\* precedes the buy order), and the purchase is added to what the exit left.
C4_ExitBeforeInvestment ==
    (step.exit = "sold" /\ step.outcome = "bought") =>
        LET x == Last(profit_history)
            i == Last(investment_history)
            S == step.pre.total_shares
            C == step.pre.total_invested
        IN  /\ x.date = bar.date
            /\ i.date = bar.date
            /\ x.return_percent = ReturnPct(S, C, x.price)
            /\ x.shares_sold = PyRound(Fmul(S, sell_ratio), 4)
            /\ x.cost_of_sold = Fmul(Fdiv(x.shares_sold, S), C)
            /\ total_shares = Fadd(Fsub(S, x.shares_sold), i.shares)
            /\ total_invested = Fadd(Fsub(C, x.cost_of_sold), i.amount)
            /\ orders[Len(orders) - 1] = [op |-> "sell", size |-> x.shares_sold]
            /\ orders[Len(orders)] = [op |-> "buy", size |-> i.shares]
\* A bar on which a part of the position was sold and a purchase was made.
C4_Witness ==
    /\ step.exit = "sold"
    /\ step.outcome = "bought"
    /\ Fgt(Fsub(step.pre.total_shares, Last(profit_history).shares_sold), Zero)

\* The buy orders among the orders.
Buys(os) == SelectSeq(os, LAMBDA o : o.op = "buy")

\* What an investment attempt that buys nothing leaves alone: the cadence,
\* the count, the history, the buy orders, and the position as the
\* profit-taking of the same bar left it.
AttemptChangedNothing ==
    /\ last_investment_date' = last_investment_date
    /\ investment_count' = investment_count
    /\ investment_history' = investment_history
    /\ Buys(orders') = Buys(orders)
    /\ total_shares' = step'.mid.total_shares
    /\ total_invested' = step'.mid.total_invested

\* C5: last_investment_date changes only in a step that buys a size > 0, and
\* becomes that bar's date; an attempt that ends with multiplier 0, with no
\* cash or with a size rounded to 0 buys nothing and leaves the cadence, the
\* count, the history and the position unchanged.
C5_CadenceOnlyOnPurchase ==
    [][/\ last_investment_date' # last_investment_date
          => /\ last_investment_date' = bar'.date
             /\ Len(orders') > 0
             /\ Last(orders').op = "buy"
             /\ Fgt(Last(orders').size, Zero)
             /\ Len(Buys(orders')) = Len(Buys(orders)) + 1
             /\ Len(investment_history') = Len(investment_history) + 1
             /\ Last(investment_history').date = bar'.date
             /\ Last(investment_history').shares = Last(orders').size
       /\ step'.outcome \in {"zero_multiplier", "no_cash", "zero_size"}
          => AttemptChangedNothing]_vars
\* An attempt, on a bar where an investment was due again after an earlier
\* purchase, that ended with a size rounded to 0.
C5_Witness ==
    /\ step.outcome = "zero_size"
    /\ investment_count = 1
    /\ bar.date - last_investment_date >= investment_interval

\* C6: an attempt made while the moving average is not ready (NaN or 0) buys
\* nothing and leaves the cadence, the count, the history and the position
\* unchanged.
C6_NotReadySkips ==
    [][step'.outcome = "not_ready" => AttemptChangedNothing]_vars
\* A due attempt skipped for a moving average that is not ready, with a
\* position and an earlier purchase to preserve.
C6_Witness ==
    /\ step.outcome = "not_ready"
    /\ investment_count = 1
    /\ bar.date - last_investment_date >= investment_interval
    /\ Fgt(total_shares, Zero)

\* C7: an executed exit allocates the cost by the average-cost rule: with S
\* and C the shares and cost before it, s the shares sold and p the close,
\* the record has amount_received = s*p, cost_of_sold = (s/S)*C and
\* profit = s*p - (s/S)*C; the exit leaves S - s shares at cost C - (s/S)*C,
\* adds s*p to total_sell_amount and sets last_profit_taking_date to the date.
C7_AverageCost ==
    [][step'.exit = "sold" =>
          LET x == Last(profit_history')
              S == total_shares
              C == total_invested
              s == x.shares_sold
              p == x.price
          IN  /\ Len(profit_history') = Len(profit_history) + 1
              /\ x.date = bar'.date
              /\ x.amount_received = Fmul(s, p)
              /\ x.cost_of_sold = Fmul(Fdiv(s, S), C)
              /\ x.profit = Fsub(Fmul(s, p), Fmul(Fdiv(s, S), C))
              /\ step'.mid.total_shares = Fsub(S, s)
              /\ step'.mid.total_invested = Fsub(C, Fmul(Fdiv(s, S), C))
              /\ total_sell_amount' = Fadd(total_sell_amount, Fmul(s, p))
              /\ last_profit_taking_date' = bar'.date]_vars
\* A partial exit from a position built by two purchases.
C7_Witness ==
    /\ step.exit = "sold"
    /\ investment_count = 2
    /\ Fgt(step.mid.total_shares, Zero)
    /\ Flt(Last(profit_history).cost_of_sold, step.pre.total_invested)

\* C8: with sell_ratio = 1.0 an executed exit sells all the shares held and
\* leaves total_shares = 0 and total_invested = 0 exactly.
C8_FullLiquidationExact ==
    (sell_ratio = FromInt(1) /\ step.exit = "sold") =>
        /\ Last(profit_history).shares_sold = step.pre.total_shares
        /\ step.mid.total_shares = Zero
        /\ step.mid.total_invested = Zero

\* Python's sum() of field f of the records of h, left to right.
RECURSIVE SumField(_, _)
SumField(h, f) ==
    IF h = <<>> THEN Zero
    ELSE Fadd(SumField(SubSeq(h, 1, Len(h) - 1), f), Last(h)[f])

Fabs(a) == [m |-> Abs(a.m), e |-> a.e]

\* The machine epsilon of the floats: the gap between 1 and the next float.
Epsilon == Rnd(1, 1 - MantBits)

\* a and b differ by at most (2n + 2) * Epsilon * gross: the rounding errors
\* that n additions on each side, of terms of total magnitude gross, can
\* accumulate.
WithinRounding(a, b, n, gross) ==
    Fle(Fabs(Fsub(a, b)), Fmul(FromInt(2 * n + 2), Fmul(Epsilon, gross)))

\* C9 as stated: total_invested is exactly the sum of the amounts bought
\* minus the sum of the costs sold, and total_shares exactly the sum of the
\* shares bought minus the sum of the shares sold.
C9_LedgerExact ==
    /\ total_invested = Fsub(SumField(investment_history, "amount"),
                             SumField(profit_history, "cost_of_sold"))
    /\ total_shares = Fsub(SumField(investment_history, "shares"),
                           SumField(profit_history, "shares_sold"))

\* C9, amended: the two sides are equal up to the rounding errors of the
\* additions: they differ by at most (2n + 2) machine epsilons of the sum of
\* all the amounts (shares) bought and sold, n being the number of records.
C9_LedgerWithinRounding ==
    LET n == Len(investment_history) + Len(profit_history)
        bought == SumField(investment_history, "amount")
        sold == SumField(profit_history, "cost_of_sold")
        sharesIn == SumField(investment_history, "shares")
        sharesOut == SumField(profit_history, "shares_sold")
    IN  /\ WithinRounding(total_invested, Fsub(bought, sold), n, Fadd(bought, sold))
        /\ WithinRounding(total_shares, Fsub(sharesIn, sharesOut), n,
                          Fadd(sharesIn, sharesOut))
\* A purchase, an exit and a purchase again: the ledger and the sums add the
\* same terms in different orders.
C9_Witness ==
    /\ Len(investment_history) = 2
    /\ Len(profit_history) = 1
    /\ investment_history[1].date < profit_history[1].date
    /\ profit_history[1].date <= investment_history[2].date
    /\ ~C9_LedgerExact

\* C10: total_invested is zero exactly when total_shares is zero.  A full
\* liquidation can leave a negative rounding residue in total_invested; a
\* later purchase of that very amount brings total_invested back to zero
\* while shares are held.
C10_ZeroTogether ==
    (total_invested = Zero) <=> (total_shares = Zero)

\* C11: an executed investment deploys at most the amount requested and at
\* most the free cash the broker reported on that bar.
C11_DeployedWithinCash ==
    step.outcome = "bought" =>
        LET i == Last(investment_history)
        IN  /\ Fle(i.amount, Fmul(BaseCash, i.multiplier))
            /\ Fle(i.amount, bar.cash)

\* C12: the size of a purchase follows the configured position sizing mode,
\* and whole-unit sizing is one of the modes: with free cash 150 clipping the
\* requested 154 at a price of 29, the whole-unit purchase is 5 units for 145.
\* The strategy has no sizing parameter: whatever its configuration it sizes
\* by round(investment_amount / current_price, 4).
C12_WholeUnitSizing ==
    (step.outcome = "bought" /\ bar.cash = FromInt(150) /\ bar.close = FromInt(29)) =>
        LET i == Last(investment_history)
        IN  /\ i.shares = FromInt(5)
            /\ i.amount = FromInt(145)

\* The position, the cadence and cooldown state, the histories and the orders.
Ledger == <<investment_count, last_investment_date, last_profit_taking_date,
            investment_history, total_invested, total_shares, profit_history,
            total_sell_amount, orders>>

\* C13: a bar whose date is not strictly later than the date of the bar
\* before it is rejected: it produces no buy or sell order and changes
\* nothing of the position, the cadence or the cooldown.  (The closes of the
\* feeds modelled are all finite.)
C13_MalformedRejected ==
    [][(bar.n >= 1 /\ bar'.date <= bar.date) => UNCHANGED Ledger]_vars

\* The conditions of an exit on the bar that comes next, on the position as
\* it stands before that bar.
ExitConditions ==
    /\ Fgt(total_shares, Zero)
    /\ Fgt(total_invested, Zero)
    /\ \A k \in 1 .. Len(profit_history) :
          bar'.date - profit_history[k].date >= profit_taking_cooldown
    /\ Fge(ReturnPct(total_shares, total_invested, bar'.close), TargetReturn)
    /\ Fgt(PyRound(Fmul(total_shares, sell_ratio), 4), Zero)

\* C15: a bar executes an exit exactly when the position it arrives on has
\* shares and a cost basis, no earlier exit is less than
\* profit_taking_cooldown days back, the return is at least target_return and
\* the rounded sell_shares is positive; otherwise no sell order is emitted, no
\* record is appended, and last_profit_taking_date, total_sell_amount and the
\* position the investment step finds are unchanged.
C15_ExitIffConditions ==
    [][/\ ExitConditions <=> (Len(profit_history') = Len(profit_history) + 1)
       /\ ~ExitConditions =>
             /\ profit_history' = profit_history
             /\ last_profit_taking_date' = last_profit_taking_date
             /\ total_sell_amount' = total_sell_amount
             /\ step'.mid = [total_shares |-> total_shares,
                             total_invested |-> total_invested]
             /\ \A k \in Len(orders) + 1 .. Len(orders') : orders'[k].op # "sell"]_vars
\* A first exit, on a bar on which no investment is due.
C15_Witness ==
    /\ step.exit = "sold"
    /\ step.outcome = "not_due"
    /\ Len(profit_history) = 1
    /\ Fge(step.current_return, TargetReturn)

\* C16: the totals are never negative; total_shares leaves 0 only on a bar
\* that executes an investment and comes back to 0 only on a bar that
\* executes an exit; and an exit never sells more shares than are held.
C16_NeverNegative ==
    /\ Fge(total_shares, Zero)
    /\ Fge(total_invested, Zero)
    /\ Fge(total_sell_amount, Zero)
    /\ (step.pre.total_shares = Zero /\ Fgt(total_shares, Zero))
          => step.outcome = "bought"
    /\ (Fgt(step.pre.total_shares, Zero) /\ total_shares = Zero)
          => step.exit = "sold"
    /\ step.exit = "sold"
          => Fle(Last(profit_history).shares_sold, step.pre.total_shares)

\* An investment is due on the bar that comes next: none has completed yet,
\* or the last completed one is at least investment_interval days back.
DueNext ==
    \/ investment_history = <<>>
    \/ bar'.date - Last(investment_history).date >= investment_interval

\* What the bar that comes next offers to an attempt: the moving average is
\* ready, the multiplier of the deviation is not 0, the broker has free cash
\* and the size rounds above 0.
CanBuyNext ==
    /\ bar'.ma120 # Zero
    /\ ~isna(bar'.ma120)
    /\ \E close \in {bar'.close}, ma \in {bar'.ma120}, cash \in {bar'.cash} :
       \E dev \in {Fmul(Fdiv(Fsub(close, ma), ma), Hundred)} :
       \E requested \in {Fmul(BaseCash, get_investment_multiplier(dev))} :
       \E amount \in {IF Fgt(requested, cash) THEN cash ELSE requested} :
          /\ requested # Zero
          /\ Fgt(cash, Zero)
          /\ Fgt(PyRound(Fdiv(amount, close), 4), Zero)

\* C17: an investment is attempted on every bar on which one is due, so an
\* attempt that completes no purchase is made again on the bar after it, and
\* before the first purchase every bar attempts one; the attempt buys exactly
\* when the moving average is ready, the multiplier is not 0, there is free
\* cash and the size rounds above 0.
C17_SkippedAttemptRetried ==
    [][/\ DueNext <=> step'.outcome # "not_due"
       /\ (step.outcome \in {"not_ready", "zero_multiplier", "no_cash", "zero_size"})
             => step'.outcome # "not_due"
       /\ investment_history = <<>> => step'.outcome # "not_due"
       /\ DueNext => (CanBuyNext <=> Len(investment_history') = Len(investment_history) + 1)
       /\ ~DueNext => investment_history' = investment_history]_vars
\* A first purchase on the third bar, after two attempts that were given up.
C17_Witness ==
    /\ bar.n = 3
    /\ step.outcome = "bought"
    /\ Len(investment_history) = 1

\* The counter and the two dates agree with the histories.
LogsConsistent ==
    /\ investment_count = Len(investment_history)
    /\ IF investment_history = <<>> THEN last_investment_date = None
       ELSE last_investment_date = Last(investment_history).date
    /\ IF profit_history = <<>> THEN last_profit_taking_date = None
       ELSE last_profit_taking_date = Last(profit_history).date

\* h2 is h, or h with one record appended.
AppendsAtMostOne(h, h2) ==
    /\ Len(h2) \in {Len(h), Len(h) + 1}
    /\ SubSeq(h2, 1, Len(h)) = h

\* C18: investment_count is the length of investment_history;
\* last_investment_date is None while investment_history is empty and the
\* date of its last record afterwards, and likewise last_profit_taking_date
\* with profit_history; a bar appends at most one record to each history and
\* leaves the records already there as they are.
C18_LogsConsistent ==
    /\ []LogsConsistent
    /\ [][/\ AppendsAtMostOne(investment_history, investment_history')
          /\ AppendsAtMostOne(profit_history, profit_history')]_vars
\* Two purchases around an exit, all on record.
C18_Witness ==
    /\ investment_count = 2
    /\ Len(profit_history) = 1
    /\ last_investment_date = investment_history[2].date
    /\ last_profit_taking_date = profit_history[1].date
    /\ last_profit_taking_date < last_investment_date

\* C19: an exit leaves last_investment_date, investment_count and
\* investment_history alone, and an investment leaves
\* last_profit_taking_date, total_sell_amount and profit_history alone: on
\* every bar the cadence side changes only by the bar's purchase and the
\* cooldown side only by the bar's exit.
C19_CadenceCooldownIndependent ==
    [][/\ step'.outcome # "bought"
             => UNCHANGED <<last_investment_date, investment_count, investment_history>>
       /\ step'.outcome = "bought"
             => /\ last_investment_date' = bar'.date
                /\ investment_count' = investment_count + 1
                /\ investment_history' = Append(investment_history,
                                                Last(investment_history'))
       /\ step'.exit # "sold"
             => UNCHANGED <<last_profit_taking_date, total_sell_amount, profit_history>>
       /\ step'.exit = "sold"
             => /\ last_profit_taking_date' = bar'.date
                /\ profit_history' = Append(profit_history, Last(profit_history'))
                /\ total_sell_amount' =
                      Fadd(total_sell_amount, Last(profit_history').amount_received)]_vars
\* A purchase on a bar inside the cooldown of an earlier exit.
C19_Witness ==
    /\ step.outcome = "bought"
    /\ step.exit = "cooldown"
    /\ last_profit_taking_date < bar.date
    /\ Last(profit_history).date > investment_history[1].date

\* C20 as stated: after an exit that leaves shares, total_invested /
\* total_shares is exactly what it was before the exit.
C20_AverageCostExact ==
    (step.exit = "sold" /\ Fgt(step.mid.total_shares, Zero)) =>
        Fdiv(step.mid.total_invested, step.mid.total_shares)
            = Fdiv(step.pre.total_invested, step.pre.total_shares)

\* C20, amended: after an exit that leaves shares the average cost is the
\* one before the exit up to rounding: with S, C the shares and cost before
\* and S2, C2 after, C2 * S and C * S2 differ by at most 4 machine epsilons
\* of C * S.
C20_AverageCostWithinRounding ==
    (step.exit = "sold" /\ Fgt(step.mid.total_shares, Zero)) =>
        Fle(Fabs(Fsub(Fmul(step.mid.total_invested, step.pre.total_shares),
                      Fmul(step.pre.total_invested, step.mid.total_shares))),
            Fmul(FromInt(4),
                 Fmul(Epsilon, Fmul(step.pre.total_invested, step.pre.total_shares))))
\* A partial exit from a position built by two purchases, after which the
\* quotient is not the one before.
C20_Witness ==
    /\ step.exit = "sold"
    /\ Fgt(step.mid.total_shares, Zero)
    /\ Len(investment_history) >= 2
    /\ investment_history[2].date < Last(profit_history).date
    /\ ~C20_AverageCostExact
====
